---- MODULE Spec2Model ----
(***************************************************************************)
(* A model of epistemic_gsm.py: the text perturbation primitives           *)
(* (EpistemicPerturber), the five bundle builders (BundleFactory) and the  *)
(* generation-then-save loop of main.                                      *)
(*                                                                         *)
(* A Python string is a sequence of one-character strings, so that the     *)
(* regular expressions, split, strip and join of the source are computed   *)
(* character by character.  None is the model value None.                  *)
(***************************************************************************)
EXTENDS Integers, Sequences, FiniteSets, TLC

VARIABLES
    NUM_CANDIDATES, \* the configured ensemble size (module constant, line 13)
    dataset,        \* the loaded corpus: a sequence of rows [question, answer]
    fn,             \* the operation that last returned
    arg,            \* its argument: a solution text, a row, an answer
    ret,            \* its return value
    trace,          \* what the last builder did on the way (see the builders)
    pc,             \* per run: where main is
    i,              \* per run: the loop index of main's generation loop
    bundles,        \* per run: main's list of bundles
    outfile,        \* per run: the text of OUTPUT_FILE, None until it is opened
    written,        \* per run: the bundles the writing loop has gone through
    rng             \* per run: the state of the shared random generator

\* The state of the runs of main.
run == <<pc, i, bundles, outfile, written, rng>>

vars == <<NUM_CANDIDATES, dataset, fn, arg, ret, trace, pc, i, bundles, outfile, written, rng>>

(***************************************************************************)
(* Bounds of the model.                                                    *)
(***************************************************************************)
\* Longest solution text given to get_steps.
MaxLen == 6
\* Longest corpus of a factory whose builders are called one by one.
MaxPool == 2
\* Largest ensemble size configured for such a factory.
MaxCandidates == 3
\* Most steps of a solution given to create_class_ii for its windows.
MaxSteps == 8
\* Longest corpus of a whole run of main.
MaxCorpus == 6

(***************************************************************************)
(* Program constants.                                                      *)
(***************************************************************************)
SEED == 42
DefaultNumCandidates == 5
RandintLo == -10
RandintHi == 10

None == "None"

(***************************************************************************)
(* Strings.                                                                *)
(***************************************************************************)
\* Characters str.strip() removes and the regular expression \s matches.
Whitespace == {" ", "\n", "\t"}
\* The lookbehind class [.!?] of get_steps' split pattern.
SentenceEnd == {".", "!", "?"}
Digits == {"0", "1", "2", "3", "4", "5", "6", "7", "8", "9"}
Marker == <<"#", "#", "#", "#">>

DigitSeq == <<"0", "1", "2", "3", "4", "5", "6", "7", "8", "9">>

DigitChar(d) == DigitSeq[d + 1]

DigitVal(c) == CHOOSE d \in 0..9 : DigitSeq[d + 1] = c

RECURSIVE NatToStr(_)
NatToStr(n) ==
    IF n < 10 THEN <<DigitChar(n)>>
    ELSE Append(NatToStr(n \div 10), DigitChar(n % 10))

\* str(n) of a Python int.
IntToStr(n) == IF n < 0 THEN <<"-">> \o NatToStr(-n) ELSE NatToStr(n)

RECURSIVE DigitsToNat(_)
DigitsToNat(s) ==
    IF s = <<>> THEN 0
    ELSE 10 * DigitsToNat(SubSeq(s, 1, Len(s) - 1)) + DigitVal(s[Len(s)])

RECURSIVE Pow10(_)
Pow10(k) == IF k = 0 THEN 1 ELSE 10 * Pow10(k - 1)

\* Whether t occurs in s at position p.
StartsAt(s, t, p) ==
    /\ p >= 1
    /\ p + Len(t) - 1 <= Len(s)
    /\ SubSeq(s, p, p + Len(t) - 1) = t

\* Positions at which t occurs in s.
Occurrences(s, t) == {p \in 1..Len(s) : StartsAt(s, t, p)}

Min(S) == CHOOSE x \in S : \A y \in S : x <= y

\* The end of the longest run of characters of class cls that starts at p
\* (p - 1 when s[p] is not in cls).
RECURSIVE RunEnd(_, _, _)
RunEnd(s, p, cls) ==
    IF p <= Len(s) /\ s[p] \in cls THEN RunEnd(s, p + 1, cls) ELSE p - 1

\* str.strip()
RECURSIVE LStrip(_)
LStrip(s) ==
    IF s # <<>> /\ s[1] \in Whitespace THEN LStrip(Tail(s)) ELSE s

RECURSIVE RStrip(_)
RStrip(s) ==
    IF s # <<>> /\ s[Len(s)] \in Whitespace THEN RStrip(SubSeq(s, 1, Len(s) - 1)) ELSE s

Strip(s) == RStrip(LStrip(s))

\* " ".join(parts)
RECURSIVE JoinSpace(_)
JoinSpace(parts) ==
    IF parts = <<>> THEN <<>>
    ELSE IF Len(parts) = 1 THEN parts[1]
    ELSE parts[1] \o <<" ">> \o JoinSpace(Tail(parts))

\* s.replace(',', '')
RECURSIVE RemoveCommas(_)
RemoveCommas(s) ==
    IF s = <<>> THEN <<>>
    ELSE IF s[1] = "," THEN RemoveCommas(Tail(s))
    ELSE <<s[1]>> \o RemoveCommas(Tail(s))

(***************************************************************************)
(* EpistemicPerturber.extract_answer                                       *)
(***************************************************************************)
\* The end of the match of -?[\d,]+(?:\.\d+)? that starts at p, 0 if none.
\* Every quantifier is greedy and none can give a character back to a later
\* part of the pattern, so the match is the longest one.
NumberEnd(s, p) ==
    LET q == IF p <= Len(s) /\ s[p] = "-" THEN p + 1 ELSE p
        e == RunEnd(s, q, Digits \cup {","})
        f == IF e + 1 <= Len(s) /\ s[e + 1] = "." THEN RunEnd(s, e + 2, Digits) ELSE 0
    IN  IF e < q THEN 0
        ELSE IF f >= e + 2 THEN f
        ELSE e

\* The group of the match of ####\s*(...) that starts at p: <<from, to>>,
\* or <<0, 0>> when the pattern does not match there.
AnswerAt(s, p) ==
    IF ~StartsAt(s, Marker, p) THEN <<0, 0>>
    ELSE LET g == RunEnd(s, p + 4, Whitespace) + 1
             e == NumberEnd(s, g)
         IN  IF e = 0 THEN <<0, 0>> ELSE <<g, e>>

extract_answer(solution) ==
    LET hits == {p \in 1..Len(solution) : AnswerAt(solution, p)[1] # 0}
    IN  IF hits = {} THEN None
        ELSE LET m == AnswerAt(solution, Min(hits))
             IN  RemoveCommas(SubSeq(solution, m[1], m[2]))

(***************************************************************************)
(* EpistemicPerturber.get_steps                                            *)
(***************************************************************************)
\* solution.split("####")[0]
BeforeMarker(solution) ==
    LET occ == Occurrences(solution, Marker)
    IN  IF occ = {} THEN solution ELSE SubSeq(solution, 1, Min(occ) - 1)

\* re.split(r'(?<=[.!?])\s+|\n', s), scanning from p with the piece cur open
\* and the pieces acc closed.
RECURSIVE ReSplit(_, _, _, _)
ReSplit(s, p, cur, acc) ==
    IF p > Len(s) THEN Append(acc, cur)
    ELSE IF p > 1 /\ s[p - 1] \in SentenceEnd /\ s[p] \in Whitespace
    THEN ReSplit(s, RunEnd(s, p, Whitespace) + 1, <<>>, Append(acc, cur))
    ELSE IF s[p] = "\n"
    THEN ReSplit(s, p + 1, <<>>, Append(acc, cur))
    ELSE ReSplit(s, p + 1, Append(cur, s[p]), acc)

\* [s.strip() for s in pieces]: the pieces stripped, the empty ones kept.
RECURSIVE StripAll(_)
StripAll(pieces) ==
    IF pieces = <<>> THEN <<>>
    ELSE <<Strip(pieces[1])>> \o StripAll(Tail(pieces))

\* [s.strip() for s in pieces if s.strip()]
RECURSIVE StripNonEmpty(_)
StripNonEmpty(pieces) ==
    IF pieces = <<>> THEN <<>>
    ELSE IF Strip(pieces[1]) = <<>> THEN StripNonEmpty(Tail(pieces))
    ELSE <<Strip(pieces[1])>> \o StripNonEmpty(Tail(pieces))

SplitPieces(reasoning) == ReSplit(reasoning, 1, <<>>, <<>>)

get_steps(solution) == StripNonEmpty(SplitPieces(BeforeMarker(solution)))

(***************************************************************************)
(* The random module.  One draw is one value of random(), known to the     *)
(* model in steps of 1/RandScale: a draw is a number in 0..RandScale-1.    *)
(* A function that draws takes the draws of the call that uses it, rs, and  *)
(* the number of them already taken, at.                                   *)
(***************************************************************************)
\* Resolution of one draw.
RandScale == 64

\* The state after one more draw (a stand-in for the generator's own
\* recurrence: what matters is that the next state is a function of the
\* state alone).
Advance(state) == (5 * state + 3) % RandScale

\* The next n draws of a generator in the given state.
RECURSIVE Stream(_, _)
Stream(state, n) ==
    IF n = 0 THEN <<>> ELSE <<state>> \o Stream(Advance(state), n - 1)

\* The state after n draws.
RECURSIVE AdvanceBy(_, _)
AdvanceBy(state, n) == IF n = 0 THEN state ELSE AdvanceBy(Advance(state), n - 1)

\* A number in 0..n-1 from one draw.
randbelow(n, draw) == (draw * n) \div RandScale

\* random.randint(a, b)
randint(a, b, draw) == a + randbelow(b - a + 1, draw)

\* random.shuffle(x): for i in reversed(range(1, len(x))), swap x[i] with
\* x[randbelow(i + 1)].  k is i + 1, the 1-based index of x[i].
Swap(x, k, j) == [x EXCEPT ![k] = x[j], ![j] = x[k]]

RECURSIVE ShuffleFrom(_, _, _, _)
ShuffleFrom(x, k, rs, at) ==
    IF k <= 1 THEN x
    ELSE ShuffleFrom(Swap(x, k, randbelow(k, rs[at + 1]) + 1), k - 1, rs, at + 1)

shuffle(x, rs, at) == ShuffleFrom(x, Len(x), rs, at)

\* The draws random.shuffle takes for a list of n elements.
ShuffleDraws(n) == IF n > 1 THEN n - 1 ELSE 0

(***************************************************************************)
(* EpistemicPerturber.generate_wrong_answer                                *)
(***************************************************************************)
\* float(s) of a text made of a sign, digits and a point: the sign, the
\* digits before the point and the digits after it.  The values of the
\* model are small, so that the double holds them exactly.
DotAt(body) ==
    IF \E p \in 1..Len(body) : body[p] = "."
    THEN Min({p \in 1..Len(body) : body[p] = "."})
    ELSE Len(body) + 1

Unsigned(neg, body, dot) ==
    [neg |-> neg, ip |-> SubSeq(body, 1, dot - 1), fp |-> SubSeq(body, dot + 1, Len(body))]

NumberParts(s) ==
    IF s # <<>> /\ s[1] = "-"
    THEN Unsigned(TRUE, Tail(s), DotAt(Tail(s)))
    ELSE Unsigned(FALSE, s, DotAt(s))

\* Whether float() returns for the parts n: digits on both sides of the
\* point, and at least one.
PartsOk(n) ==
    /\ \A p \in 1..Len(n.ip) : n.ip[p] \in Digits
    /\ \A p \in 1..Len(n.fp) : n.fp[p] \in Digits
    /\ Len(n.ip) + Len(n.fp) >= 1

\* Whether float(s) returns: s is a text (not None) that float accepts.
FloatOk(s) == s # None /\ PartsOk(NumberParts(s))

\* val.is_integer()
PartsInteger(n) == \A p \in 1..Len(n.fp) : n.fp[p] = "0"

IsInteger(s) == PartsInteger(NumberParts(s))

\* int(val) of an integral val.
PartsValue(n) == (IF n.neg THEN -1 ELSE 1) * DigitsToNat(n.ip)

\* The hundredths of val * random.uniform(0.8, 1.2), rounded: uniform(a, b)
\* is a + (b - a) * random().
Hundredths(m, places, draw) ==
    (2 * (m * (8 * RandScale + 4 * draw) * 10) + RandScale * Pow10(places))
        \div (2 * RandScale * Pow10(places))

\* f"{x:.2f}" of h hundredths.
TwoPlaces(neg, h) ==
    (IF neg THEN <<"-">> ELSE <<>>)
        \o NatToStr(h \div 100) \o <<".", DigitChar((h % 100) \div 10), DigitChar(h % 10)>>

\* str(int(val + offset)) with offset = random.choice([-1, 1, random.randint(-10, 10)]):
\* the list is built, so randint drawn, before choice draws.
IntegerShift(n, rs, at) ==
    IntToStr(PartsValue(n)
             + <<-1, 1, randint(RandintLo, RandintHi, rs[at + 1])>>[randbelow(3, rs[at + 2]) + 1])

\* f"{val * random.uniform(0.8, 1.2):.2f}"
FloatShift(n, rs, at) ==
    TwoPlaces(n.neg, Hundredths(DigitsToNat(n.ip \o n.fp), Len(n.fp), rs[at + 1]))

WrongAnswerOf(n, rs, at) ==
    IF PartsInteger(n) THEN IntegerShift(n, rs, at) ELSE FloatShift(n, rs, at)

\* The except clause catches float(None) and float of a text that is no
\* number.
generate_wrong_answer(correct_ans, rs, at) ==
    IF ~FloatOk(correct_ans) THEN <<"0">>
    ELSE WrongAnswerOf(NumberParts(correct_ans), rs, at)

\* The draws generate_wrong_answer takes.
WrongAnswerDraws(correct_ans) ==
    IF ~FloatOk(correct_ans) THEN 0
    ELSE IF IsInteger(correct_ans) THEN 2
    ELSE 1

(***************************************************************************)
(* EpistemicPerturber.create_divergence, create_fragment,                  *)
(* create_hallucination                                                    *)
(***************************************************************************)
\* " ".join(steps) + f"\n#### {wrong_ans}"
WithAnswer(steps, wrong_ans) == JoinSpace(steps) \o <<"\n">> \o Marker \o <<" ">> \o wrong_ans

create_divergence(solution, steps, correct_ans, rs, at) ==
    WithAnswer(steps, generate_wrong_answer(correct_ans, rs, at))

Placeholder == <<".", ".", ".">>
Truncated == <<" ", "[", "T", "r", "u", "n", "c", "a", "t", "e", "d", "]">>

\* int(n * ratio), the ratio given in tenths.  The double product and the
\* exact one have the same integer part for every n below 90.
RatioIndex(n, tenths) == (n * tenths) \div 10

\* The slice bounds <<start, end>> of create_fragment.
Window(steps, start_ratio, end_ratio) ==
    <<RatioIndex(Len(steps), start_ratio), RatioIndex(Len(steps), end_ratio)>>

\* steps[start:end]
Slice(steps, start, end) == SubSeq(steps, start + 1, end)

\* create_fragment without its fallback for an empty slice.
create_fragment_no_fallback(steps, start_ratio, end_ratio) ==
    LET w == Window(steps, start_ratio, end_ratio)
    IN  JoinSpace(Slice(steps, w[1], w[2])) \o Truncated

create_fragment(steps, start_ratio, end_ratio) ==
    LET w        == Window(steps, start_ratio, end_ratio)
        fragment == Slice(steps, w[1], w[2])
    IN  IF fragment = <<>> THEN Placeholder
        ELSE JoinSpace(fragment) \o Truncated

create_hallucination(other_solutions, rs, at) ==
    other_solutions[randbelow(Len(other_solutions), rs[at + 1]) + 1]

(***************************************************************************)
(* BundleFactory.  A builder returns its bundle and, for the properties    *)
(* that speak of them, the candidate list as it stood before the shuffle   *)
(* (built) and the slice bounds of the fragments (windows).                *)
(***************************************************************************)
LabelI == "Class I: Redundant Correctness"
LabelII == "Class II: Complementary Fragmentation"
LabelIII == "Class III: Reasoning-Result Divergence"
LabelIV == "Class IV: Contradictory Hallucination"
LabelV == "Class V: False Consensus"

\* self.all_solutions = [x['answer'] for x in dataset]
all_solutions == [k \in 1..Len(dataset) |-> dataset[k].answer]

\* range(n): the number of iterations.
Range(n) == IF n < 0 THEN 0 ELSE n

pack(row, candidates, label) ==
    [question |-> row.question, ground_truth |-> row.answer,
     candidates |-> candidates, epistemic_class |-> label]

\* for _ in range(count): candidates.append(create_hallucination(all_solutions))
Hallucinations(count, rs, at) ==
    [k \in 1..count |-> create_hallucination(all_solutions, rs, at + k - 1)]

\* for _ in range(count): candidates.append(create_divergence(answer, steps, ans)),
\* each call taking the draws its answer needs.
Divergences(count, solution, steps, ans, rs, at) ==
    [k \in 1..count |->
        create_divergence(solution, steps, ans, rs, at + (k - 1) * WrongAnswerDraws(ans))]

\* for _ in range(count): candidates.append(text)
Copies(count, text) == [k \in 1..count |-> text]

\* The number of hallucinations a builder adds to its fixed candidates.
FillCount(fixed) == Range(NUM_CANDIDATES - fixed)

\* The list is shuffled after the hallucinations have taken their draws.
Shuffled(row, built, taken, rs, label) ==
    [bundle |-> pack(row, shuffle(built, rs, taken), label), built |-> built, windows |-> <<>>]

Unshuffled(row, built, label) ==
    [bundle |-> pack(row, built, label), built |-> built, windows |-> <<>>]

create_class_i(idx, row, rs) ==
    Shuffled(row, <<row.answer, row.answer>> \o Hallucinations(FillCount(2), rs, 0),
             FillCount(2), rs, LabelI)

\* Ratio windows that leave the steps between 30% and 40% out.
FragmentRatiosApart == <<<<0, 3>>, <<4, 10>>, <<4, 7>>>>

\* The ratio windows of create_class_ii, in tenths.
FragmentRatios == <<<<0, 6>>, <<4, 10>>, <<3, 7>>>>

Fragments(steps) ==
    [k \in 1..3 |-> create_fragment(steps, FragmentRatios[k][1], FragmentRatios[k][2])]

Windows(steps) ==
    [k \in 1..3 |-> Window(steps, FragmentRatios[k][1], FragmentRatios[k][2])]

create_class_ii(idx, row, rs) ==
    [Shuffled(row, Fragments(get_steps(row.answer)) \o Hallucinations(FillCount(3), rs, 0),
              FillCount(3), rs, LabelII)
        EXCEPT !.windows = Windows(get_steps(row.answer))]

create_class_iii(idx, row, rs) ==
    Unshuffled(row,
               Divergences(Range(NUM_CANDIDATES), row.answer, get_steps(row.answer),
                           extract_answer(row.answer), rs, 0),
               LabelIII)

create_class_iv(idx, row, rs) ==
    Unshuffled(row, Hallucinations(Range(NUM_CANDIDATES), rs, 0), LabelIV)

\* create_class_v with the wrong answer drawn inside the loop: the candidates
\* at odd positions read the draws in the other order.
create_class_v_redrawn(idx, row, rs) ==
    Unshuffled(row,
               [k \in 1..Range(NUM_CANDIDATES) |->
                   WithAnswer(get_steps(row.answer),
                              generate_wrong_answer(extract_answer(row.answer),
                                  IF k % 2 = 0 THEN rs
                                  ELSE [d \in 1..Len(rs) |-> rs[Len(rs) + 1 - d]], 0))],
               LabelV)

\* The wrong answer is drawn once, before the loop.
create_class_v(idx, row, rs) ==
    Unshuffled(row,
               Copies(Range(NUM_CANDIDATES),
                      WithAnswer(get_steps(row.answer),
                                 generate_wrong_answer(extract_answer(row.answer), rs, 0))),
               LabelV)

\* The number of draws each builder takes for a row: one for each
\* hallucination, those of the shuffle, those of each wrong answer.
DrawsI == FillCount(2) + ShuffleDraws(2 + FillCount(2))
DrawsII == FillCount(3) + ShuffleDraws(3 + FillCount(3))
DrawsIII(row) == Range(NUM_CANDIDATES) * WrongAnswerDraws(extract_answer(row.answer))
DrawsIV == Range(NUM_CANDIDATES)
DrawsV(row) == WrongAnswerDraws(extract_answer(row.answer))

(***************************************************************************)
(* Corpus items.                                                           *)
(***************************************************************************)
\* "a. b.\n#### 10": two steps and an integer answer.
WellFormed == <<"a", ".", " ", "b", ".", "\n", "#", "#", "#", "#", " ", "1", "0">>
\* "a. b.\n#### 2.5": two steps and a decimal answer.
Decimal == <<"a", ".", " ", "b", ".", "\n", "#", "#", "#", "#", " ", "2", ".", "5">>
\* "a.\n#### -1,000": a negative answer with a grouping separator.
Grouped == <<"a", ".", "\n", "#", "#", "#", "#", " ", "-", "1", ",", "0", "0", "0">>
\* "a.\n####7.0": an integral answer written with a fraction.
Fraction == <<"a", ".", "\n", "#", "#", "#", "#", "7", ".", "0">>
\* "a b": a step and no final-answer marker.
NoMarker == <<"a", " ", "b">>
\* "#### ,": a marker whose answer does not parse, and no step.
NoNumber == <<"#", "#", "#", "#", " ", ",">>
\* "": no marker and no step.
Empty == <<>>

\* A row of the corpus; its question is the text "Q" and a digit.
Row(q, a) == [question |-> <<"Q", q>>, answer |-> a]

\* The corpus items of a factory whose five builders are called: an item
\* whose answer parses and the malformed ones.  (An integer answer takes two
\* draws for each wrong answer; AnswerItems are those.)
Items ==
    {Row("1", Decimal), Row("2", NoMarker), Row("3", NoNumber), Row("4", Empty)}

\* The corpus items of a factory whose answer-perturbing builders are called.
AnswerItems ==
    {Row("1", WellFormed), Row("5", Grouped), Row("6", Fraction),
     Row("7", Decimal), Row("2", NoMarker)}

Corpora(items, minLen, maxLen) == UNION {[1..n -> items] : n \in minLen..maxLen}

\* A solution of n steps, "a. b. c.\n#### 10" for n = 3.
Letters == <<"a", "b", "c", "d", "e", "f", "g", "h", "i", "j", "k", "l">>
StepsText(n) ==
    JoinSpace([k \in 1..n |-> <<Letters[k], ".">>]) \o <<"\n">> \o Marker \o <<" ", "1", "0">>
StepsRow(n) == Row("1", StepsText(n))

\* The values of a draw the builders are tried with: the least, the middle
\* and the greatest.
DrawSample == {0, RandScale \div 2, RandScale - 1}

Idle == <<>>

(***************************************************************************)
(* The factory called builder by builder, on any row of the corpus and     *)
(* with any draws.                                                         *)
(***************************************************************************)
NoRun ==
    /\ pc = Idle /\ i = Idle /\ bundles = Idle
    /\ outfile = Idle /\ written = Idle /\ rng = Idle

NoCall ==
    /\ fn = "init" /\ arg = None /\ ret = None /\ trace = None

Init ==
    /\ NUM_CANDIDATES \in 1..MaxCandidates
    /\ dataset \in Corpora(Items, 1, MaxPool)
    /\ NoCall
    /\ NoRun

\* A builder returns r for the row.  The factory keeps nothing between two
\* calls, so a behaviour makes one call.
Returns(name, row, r) ==
    /\ fn' = name
    /\ arg' = row
    /\ ret' = r.bundle
    /\ trace' = [built |-> r.built, windows |-> r.windows]
    /\ UNCHANGED <<NUM_CANDIDATES, dataset, run>>

CallClassI ==
    /\ fn = "init"
    /\ \E idx \in 1..Len(dataset) : \E rs \in [1..DrawsI -> DrawSample] :
        Returns("create_class_i", dataset[idx], create_class_i(idx - 1, dataset[idx], rs))

CallClassII ==
    /\ fn = "init"
    /\ \E idx \in 1..Len(dataset) : \E rs \in [1..DrawsII -> DrawSample] :
        Returns("create_class_ii", dataset[idx], create_class_ii(idx - 1, dataset[idx], rs))

CallClassIII ==
    /\ fn = "init"
    /\ \E idx \in 1..Len(dataset) : \E rs \in [1..DrawsIII(dataset[idx]) -> DrawSample] :
        Returns("create_class_iii", dataset[idx], create_class_iii(idx - 1, dataset[idx], rs))

CallClassIV ==
    /\ fn = "init"
    /\ \E idx \in 1..Len(dataset) : \E rs \in [1..DrawsIV -> DrawSample] :
        Returns("create_class_iv", dataset[idx], create_class_iv(idx - 1, dataset[idx], rs))

CallClassV ==
    /\ fn = "init"
    /\ \E idx \in 1..Len(dataset) : \E rs \in [1..DrawsV(dataset[idx]) -> DrawSample] :
        Returns("create_class_v", dataset[idx], create_class_v(idx - 1, dataset[idx], rs))

Next ==
    \/ CallClassI
    \/ CallClassII
    \/ CallClassIII
    \/ CallClassIV
    \/ CallClassV

Spec == Init /\ [][Next]_vars

(***************************************************************************)
(* The two builders that perturb the answer, create_class_iii and          *)
(* create_class_v, which never read the pool, on one-item corpora.         *)
(***************************************************************************)
InitAnswers ==
    /\ NUM_CANDIDATES \in 1..MaxCandidates
    /\ dataset \in Corpora(AnswerItems, 1, 1)
    /\ NoCall
    /\ NoRun

NextAnswers ==
    \/ CallClassIII
    \/ CallClassV

SpecAnswers == InitAnswers /\ [][NextAnswers]_vars

(***************************************************************************)
(* create_class_ii on solutions of every number of steps, with the         *)
(* ensemble size the program sets.                                         *)
(***************************************************************************)
InitFragments ==
    /\ NUM_CANDIDATES = DefaultNumCandidates
    /\ \E n \in 0..MaxSteps :
        dataset \in {<<StepsRow(n)>>, <<StepsRow(n), Row("2", NoMarker)>>}
    /\ NoCall
    /\ NoRun

SpecFragments == InitFragments /\ [][CallClassII]_vars

(***************************************************************************)
(* get_steps on every text over a small alphabet.                          *)
(***************************************************************************)
Alphabet == {"a", ".", " ", "\n", "#"}

InitSteps ==
    /\ NUM_CANDIDATES = DefaultNumCandidates
    /\ dataset = <<>>
    /\ fn = "init"
    /\ arg \in UNION {[1..n -> Alphabet] : n \in 0..MaxLen}
    /\ ret = None
    /\ trace = None
    /\ NoRun

CallGetSteps ==
    /\ fn = "init"
    /\ fn' = "get_steps"
    /\ ret' = get_steps(arg)
    /\ UNCHANGED <<NUM_CANDIDATES, dataset, arg, trace, run>>

SpecSteps == InitSteps /\ [][CallGetSteps]_vars

(***************************************************************************)
(* json.dumps and the lines of the output file.  A text of the file is a   *)
(* sequence of characters and of literal pieces (keys, separators, labels) *)
(* that hold no line break, quote or backslash.                            *)
(***************************************************************************)
\* The escape of one character inside a JSON string.
EscapeChar(c) ==
    IF c = "\n" THEN <<"\\", "n">>
    ELSE IF c = "\t" THEN <<"\\", "t">>
    ELSE IF c = "\"" THEN <<"\\", "\"">>
    ELSE IF c = "\\" THEN <<"\\", "\\">>
    ELSE <<c>>

RECURSIVE JsonEscape(_)
JsonEscape(s) ==
    IF s = <<>> THEN <<>> ELSE EscapeChar(s[1]) \o JsonEscape(Tail(s))

JsonString(s) == <<"\"">> \o JsonEscape(s) \o <<"\"">>

RECURSIVE JsonItems(_)
JsonItems(strs) ==
    IF strs = <<>> THEN <<>>
    ELSE IF Len(strs) = 1 THEN JsonString(strs[1])
    ELSE JsonString(strs[1]) \o <<", ">> \o JsonItems(Tail(strs))

\* json.dumps(b) of a bundle: the keys in the order _pack gives them.
json_dumps(b) ==
    <<"{", "\"question\": ">> \o JsonString(b.question)
        \o <<", ", "\"ground_truth\": ">> \o JsonString(b.ground_truth)
        \o <<", ", "\"candidates\": ", "[">> \o JsonItems(b.candidates) \o <<"]">>
        \o <<", ", "\"epistemic_class\": ", "\"", b.epistemic_class, "\"", "}">>

\* The lines of a text: the pieces its line breaks end, and what follows the
\* last line break.
LineBreaks(text) == {p \in 1..Len(text) : text[p] = "\n"}

\* The position of the k-th line break of the text, 0 for k = 0.
LineBreak(text, k) ==
    IF k = 0 THEN 0
    ELSE CHOOSE p \in LineBreaks(text) :
            Cardinality({q \in LineBreaks(text) : q < p}) = k - 1

Lines(text) ==
    LET count == Cardinality(LineBreaks(text))
    IN  [lines |-> [k \in 1..count |->
                        SubSeq(text, LineBreak(text, k - 1) + 1, LineBreak(text, k) - 1)],
         rest  |-> SubSeq(text, LineBreak(text, count) + 1, Len(text))]

(***************************************************************************)
(* main: the program run twice over the same corpus, the second time when  *)
(* the first run has ended.  A run has its own generator, bundles and      *)
(* output text.                                                            *)
(***************************************************************************)
Runs == 1..2

\* Whether the program can be started for run r.
Startable(r) == IF r = 1 THEN TRUE ELSE pc[r - 1] \in {"done", "failed"}

\* A generator that is seeded or left as the system started it.
seed_or_not(a) == {a % RandScale, (a + 1) % RandScale}

\* random.seed(a): the states the generator can be in afterwards.
seed(a) == {a % RandScale}

\* mode = i % 4
ModeOfFour(index) == index % 4

\* mode = i % 5
Mode(index) == index % 5

\* The if/elif chain of main.
Build(mode, idx, row, rs) ==
    CASE mode = 0 -> create_class_i(idx, row, rs).bundle
      [] mode = 1 -> create_class_ii(idx, row, rs).bundle
      [] mode = 2 -> create_class_iii(idx, row, rs).bundle
      [] mode = 3 -> create_class_iv(idx, row, rs).bundle
      [] mode = 4 -> create_class_v(idx, row, rs).bundle

\* The draws the builder of the mode takes from the generator.
DrawsTaken(mode, row) ==
    CASE mode = 0 -> DrawsI
      [] mode = 1 -> DrawsII
      [] mode = 2 -> DrawsIII(row)
      [] mode = 3 -> DrawsIV
      [] mode = 4 -> DrawsV(row)

\* The corpus items of a run.
RunItems == {Row("1", WellFormed), Row("2", NoMarker)}

InitRun ==
    /\ NUM_CANDIDATES = DefaultNumCandidates
    /\ dataset \in Corpora(RunItems, 0, MaxCorpus)
    /\ NoCall
    /\ pc = [r \in Runs |-> "import"]
    /\ i = [r \in Runs |-> 0]
    /\ bundles = [r \in Runs |-> <<>>]
    /\ outfile = [r \in Runs |-> None]
    /\ written = [r \in Runs |-> 0]
    /\ rng = [r \in Runs |-> None]

\* random.seed(SEED) when the module is loaded.
Seed(r) ==
    /\ pc[r] = "import"
    /\ Startable(r)
    /\ \E state \in seed(SEED) : rng' = [rng EXCEPT ![r] = state]
    /\ pc' = [pc EXCEPT ![r] = "main"]
    /\ UNCHANGED <<NUM_CANDIDATES, dataset, fn, arg, ret, trace, i, bundles, outfile, written>>

\* ds = load_dataset(...); factory = BundleFactory(ds); bundles = []
Load(r) ==
    /\ pc[r] = "main"
    /\ bundles' = [bundles EXCEPT ![r] = <<>>]
    /\ i' = [i EXCEPT ![r] = 0]
    /\ pc' = [pc EXCEPT ![r] = "generate"]
    /\ UNCHANGED <<NUM_CANDIDATES, dataset, fn, arg, ret, trace, outfile, written, rng>>

\* Whether the generation loop has gone through the corpus.
Exhausted(r) == i[r] >= Len(dataset)

\* An iteration that writes its bundle as soon as it is built.
GenerateAndWrite(r) ==
    /\ pc[r] = "generate"
    /\ i[r] < Len(dataset)
    /\ LET row    == dataset[i[r] + 1]
           mode   == Mode(i[r])
           taken  == DrawsTaken(mode, row)
           bundle == Build(mode, i[r], row, Stream(rng[r], taken))
       IN  /\ bundles' = [bundles EXCEPT ![r] = Append(@, bundle)]
           /\ outfile' = [outfile EXCEPT
                ![r] = (IF @ = None THEN <<>> ELSE @) \o json_dumps(bundle) \o <<"\n">>]
           /\ rng' = [rng EXCEPT ![r] = AdvanceBy(@, taken)]
    /\ i' = [i EXCEPT ![r] = @ + 1]
    /\ written' = [written EXCEPT ![r] = @ + 1]
    /\ UNCHANGED <<NUM_CANDIDATES, dataset, fn, arg, ret, trace, pc>>

\* One iteration of the generation loop: the builder of the mode takes its
\* draws from the generator and its bundle is appended.
Generate(r) ==
    /\ pc[r] = "generate"
    /\ ~Exhausted(r)
    /\ LET row   == dataset[i[r] + 1]
           mode  == Mode(i[r])
           taken == DrawsTaken(mode, row)
       IN  /\ bundles' = [bundles EXCEPT
                ![r] = Append(@, Build(mode, i[r], row, Stream(rng[r], taken)))]
           /\ rng' = [rng EXCEPT ![r] = AdvanceBy(@, taken)]
    /\ i' = [i EXCEPT ![r] = @ + 1]
    /\ UNCHANGED <<NUM_CANDIDATES, dataset, fn, arg, ret, trace, pc, outfile, written>>

\* An exception raised while an item is generated ends the run.
Fail(r) ==
    /\ pc[r] = "generate"
    /\ ~Exhausted(r)
    /\ pc' = [pc EXCEPT ![r] = "failed"]
    /\ UNCHANGED <<NUM_CANDIDATES, dataset, fn, arg, ret, trace, i, bundles, outfile, written, rng>>

\* with open(OUTPUT_FILE, 'w') as f: the file is created empty.
OpenOutput(r) ==
    /\ pc[r] = "generate"
    /\ Exhausted(r)
    /\ outfile' = [outfile EXCEPT ![r] = <<>>]
    /\ written' = [written EXCEPT ![r] = 0]
    /\ pc' = [pc EXCEPT ![r] = "save"]
    /\ UNCHANGED <<NUM_CANDIDATES, dataset, fn, arg, ret, trace, i, bundles, rng>>

\* f.write(json.dumps(b) + "\n") for the next b of bundles.
Write(r) ==
    /\ pc[r] = "save"
    /\ written[r] < Len(bundles[r])
    /\ outfile' = [outfile EXCEPT
            ![r] = @ \o json_dumps(bundles[r][written[r] + 1]) \o <<"\n">>]
    /\ written' = [written EXCEPT ![r] = @ + 1]
    /\ UNCHANGED <<NUM_CANDIDATES, dataset, fn, arg, ret, trace, pc, i, bundles, rng>>

\* The end of the with block.
Close(r) ==
    /\ pc[r] = "save"
    /\ written[r] = Len(bundles[r])
    /\ pc' = [pc EXCEPT ![r] = "done"]
    /\ UNCHANGED <<NUM_CANDIDATES, dataset, fn, arg, ret, trace, i, bundles, outfile, written, rng>>

NextRun ==
    \/ \E r \in Runs : Seed(r)
    \/ \E r \in Runs : Load(r)
    \/ \E r \in Runs : Generate(r)
    \/ \E r \in Runs : Fail(r)
    \/ \E r \in Runs : OpenOutput(r)
    \/ \E r \in Runs : Write(r)
    \/ \E r \in Runs : Close(r)

SpecRun == InitRun /\ [][NextRun]_vars

(***************************************************************************)
(* Properties.                                                             *)
(***************************************************************************)
Builders ==
    {"create_class_i", "create_class_ii", "create_class_iii", "create_class_iv",
     "create_class_v"}

\* The number of positions of a sequence whose element is x.
CountOf(seq, x) == Cardinality({k \in 1..Len(seq) : seq[k] = x})

\* The number a text denotes, for a text float() accepts as an integer.
ValueOf(text) == PartsValue(NumberParts(text))

\* C1: every bundle a builder returns, for any item and any configured
\* ensemble size, has exactly NUM_CANDIDATES candidates.
C1_LengthIsEnsembleSize ==
    fn \in Builders => Len(ret.candidates) = NUM_CANDIDATES

\* C2: a Class I bundle has exactly two candidates equal to its
\* ground_truth, before the shuffle and after it, whatever the draws.
C2_ExactlyTwoTruths ==
    fn = "create_class_i" =>
        /\ CountOf(trace.built, ret.ground_truth) = 2
        /\ CountOf(ret.candidates, ret.ground_truth) = 2

\* C3: for an item whose answer parses as an integer, every Class III
\* candidate and the Class V consensus candidate end in a marker followed by
\* a number that is not the correct answer, whatever the draws.
C3_AnswerIsWrong ==
    (/\ fn \in {"create_class_iii", "create_class_v"}
     /\ FloatOk(extract_answer(arg.answer))
     /\ IsInteger(extract_answer(arg.answer)))
    => \A k \in 1..Len(ret.candidates) :
        /\ FloatOk(extract_answer(ret.candidates[k]))
        /\ ValueOf(extract_answer(ret.candidates[k])) # ValueOf(extract_answer(arg.answer))

\* The texts generate_wrong_answer can return for an answer.
WrongAnswers(ans) ==
    {generate_wrong_answer(ans, rs, 0) : rs \in [1..WrongAnswerDraws(ans) -> DrawSample]}

\* C4: the candidates of a Class V bundle are pairwise equal, each the
\* item's steps joined by single spaces, a newline, "#### " and one wrong
\* answer that is the same for all of them.
C4_FalseConsensus ==
    fn = "create_class_v" =>
        /\ \A j, k \in 1..Len(ret.candidates) : ret.candidates[j] = ret.candidates[k]
        /\ \E w \in WrongAnswers(extract_answer(arg.answer)) :
            \A k \in 1..Len(ret.candidates) :
                ret.candidates[k]
                    = JoinSpace(get_steps(arg.answer)) \o <<"\n", "#", "#", "#", "#", " ">> \o w

C4_Witness ==
    /\ fn = "create_class_v"
    /\ arg.answer = WellFormed
    /\ Len(ret.candidates) = MaxCandidates
    /\ extract_answer(ret.candidates[MaxCandidates]) = <<"2", "0">>

\* Whether the text of a fragment holds the step.
Holds(fragment, step) == Occurrences(fragment, step) # {}

\* C5: for a solution of n >= 4 steps, the three index ranges
\* [floor(n * start), floor(n * end)) of Class II for the ratios (0.0, 0.6),
\* (0.4, 1.0), (0.3, 0.7) together are [0, n), and every step of the ground
\* truth is in at least one fragment of the bundle.
C5_FragmentsCover ==
    (fn = "create_class_ii" /\ Len(get_steps(arg.answer)) >= 4) =>
        LET steps == get_steps(arg.answer)
            n     == Len(steps)
        IN  /\ trace.windows = <<<<0, (n * 6) \div 10>>, <<(n * 4) \div 10, n>>,
                                 <<(n * 3) \div 10, (n * 7) \div 10>>>>
            /\ UNION {trace.windows[k][1]..(trace.windows[k][2] - 1) : k \in 1..3}
                    = 0..(n - 1)
            /\ \A p \in 1..n :
                /\ \E k \in 1..3 : Holds(trace.built[k], steps[p])
                /\ \E k \in 1..Len(ret.candidates) :
                    /\ ret.candidates[k] \in {trace.built[f] : f \in 1..3}
                    /\ Holds(ret.candidates[k], steps[p])

C5_Witness ==
    /\ fn = "create_class_ii"
    /\ Len(get_steps(arg.answer)) = 5
    /\ Len(dataset) = 2
    /\ ret.candidates[1] = dataset[2].answer

\* The labels of the classes, in the order of the modes.
ClassOrder == <<LabelI, LabelII, LabelIII, LabelIV, LabelV>>

\* The bundles of a class among those of a run.
OfClass(r, label) == {k \in 1..Len(bundles[r]) : bundles[r][k].epistemic_class = label}

\* C6: main goes through the corpus in order and gives the item at position
\* i to the builder of class i mod 5 alone; the output has one record for
\* each item, the k-th one the bundle of the k-th item, and the numbers of
\* bundles of two classes differ by one at most (by none when the corpus
\* size is a multiple of 5).
C6_CyclicRouting ==
    \A r \in Runs :
        /\ Len(bundles[r]) = i[r]
        /\ \A k \in 1..Len(bundles[r]) :
            /\ bundles[r][k].question = dataset[k].question
            /\ bundles[r][k].ground_truth = dataset[k].answer
            /\ bundles[r][k].epistemic_class = ClassOrder[((k - 1) % 5) + 1]
        /\ pc[r] = "done" =>
            /\ Len(bundles[r]) = Len(dataset)
            /\ LET records == Lines(outfile[r])
               IN  /\ records.rest = <<>>
                   /\ Len(records.lines) = Len(dataset)
                   /\ \A k \in 1..Len(dataset) :
                        records.lines[k] = json_dumps(bundles[r][k])
            /\ \A a, b \in 1..5 :
                /\ Cardinality(OfClass(r, ClassOrder[a]))
                        - Cardinality(OfClass(r, ClassOrder[b])) \in {-1, 0, 1}
                /\ Len(dataset) % 5 = 0 =>
                    Cardinality(OfClass(r, ClassOrder[a]))
                        = Cardinality(OfClass(r, ClassOrder[b]))

C6_Witness ==
    /\ pc[1] = "done"
    /\ Len(dataset) = MaxCorpus
    /\ Cardinality(OfClass(1, LabelI)) = 2
    /\ Cardinality(OfClass(1, LabelV)) = 1

\* C7: two runs over the same corpus with the same seed give the same
\* output: after the same number of items the generator is in the same state
\* in both, every bundle of one is equal to the bundle of the other at its
\* position, and the files written are equal text for text.
C7_Deterministic ==
    /\ \A k \in 1..Len(bundles[1]) :
        k <= Len(bundles[2]) => bundles[1][k] = bundles[2][k]
    /\ (i[1] = i[2] /\ pc[1] # "import" /\ pc[2] # "import") => rng[1] = rng[2]
    /\ (outfile[1] # None /\ outfile[2] # None /\ written[1] = written[2])
            => outfile[1] = outfile[2]
    /\ (pc[1] = "done" /\ pc[2] = "done") => outfile[1] = outfile[2]

C7_Witness ==
    /\ pc[1] = "done"
    /\ pc[2] = "done"
    /\ Len(dataset) = MaxCorpus
    /\ \E k \in 1..NUM_CANDIDATES :
        /\ bundles[1][1].candidates[k] # bundles[1][1].ground_truth
        /\ bundles[2][1].candidates[k] # bundles[2][1].ground_truth
    /\ rng[1] \notin seed(SEED)

\* A malformed item: a solution without the final-answer marker, or without
\* any reasoning step.
Malformed(solution) ==
    Occurrences(solution, Marker) = {} \/ get_steps(solution) = <<>>

\* C8: on a malformed item of a non-empty corpus every builder returns a
\* complete bundle: without a marker extract_answer gives None; an absent or
\* unparseable answer is perturbed to "0", so Class III and Class V candidates
\* end in "#### 0"; a fragment of an empty slice is "...", never the empty
\* text.
C8_MalformedDegrades ==
    (fn \in Builders /\ Malformed(arg.answer)) =>
        /\ Occurrences(arg.answer, Marker) = {} => extract_answer(arg.answer) = None
        /\ (fn \in {"create_class_iii", "create_class_v"}
                /\ ~FloatOk(extract_answer(arg.answer)))
            => \A k \in 1..Len(ret.candidates) :
                ret.candidates[k]
                    = JoinSpace(get_steps(arg.answer)) \o <<"\n", "#", "#", "#", "#", " ", "0">>
        /\ fn = "create_class_ii" =>
            \A k \in 1..3 :
                /\ trace.built[k] # <<>>
                /\ trace.windows[k][1] >= trace.windows[k][2]
                    => trace.built[k] = <<".", ".", ".">>
                /\ CountOf(ret.candidates, trace.built[k]) >= 1
        /\ DOMAIN ret = {"question", "ground_truth", "candidates", "epistemic_class"}
        /\ ret.question = arg.question
        /\ ret.ground_truth = arg.answer
        /\ ret.epistemic_class \in {LabelI, LabelII, LabelIII, LabelIV, LabelV}
        /\ Len(ret.candidates) >= NUM_CANDIDATES
        /\ \A k \in 1..Len(ret.candidates) : ret.candidates[k] # None

C8_Witness ==
    /\ fn = "create_class_ii"
    /\ arg.answer = NoNumber
    /\ NUM_CANDIDATES = MaxCandidates
    /\ ret.candidates = <<Placeholder, Placeholder, Placeholder>>

\* The sentence-ending delimiters of a text: its line breaks and its
\* sentence-ending punctuation marks that whitespace follows.
Delimiters(text) ==
    {p \in 1..Len(text) :
        \/ text[p] = "\n"
        \/ (text[p] \in {".", "!", "?"} /\ p < Len(text) /\ text[p + 1] \in Whitespace)}

\* Whether the steps are in the text one after the other.
RECURSIVE InOrder(_, _, _)
InOrder(text, from, steps) ==
    IF steps = <<>> THEN TRUE
    ELSE LET found == {p \in from..Len(text) : StartsAt(text, steps[1], p)}
         IN  /\ found # {}
             /\ InOrder(text, Min(found) + Len(steps[1]), Tail(steps))

\* C9: for a solution whose reasoning part, the text before the first
\* "####", has k sentence-ending delimiters, get_steps returns at most k + 1
\* steps, none empty, none with whitespace at either end, in the order they
\* have in the text.
C9_StepsOfSolution ==
    fn = "get_steps" =>
        /\ Len(ret) <= Cardinality(Delimiters(BeforeMarker(arg))) + 1
        /\ \A k \in 1..Len(ret) :
            /\ ret[k] # <<>>
            /\ ret[k][1] \notin Whitespace
            /\ ret[k][Len(ret[k])] \notin Whitespace
        /\ InOrder(BeforeMarker(arg), 1, ret)

C9_Witness ==
    /\ fn = "get_steps"
    /\ Cardinality(Delimiters(BeforeMarker(arg))) = 2
    /\ Len(ret) = 3
    /\ Occurrences(arg, Marker) = {}

\* C10: nothing is written before every item has its bundle: the file is
\* opened after the generation loop only, a run that fails while generating
\* has written nothing, every write adds one whole line, that of the next
\* bundle, and a run that completes has written one line for each item, in
\* the order of the corpus.
C10_SaveAfterGeneration ==
    \A r \in Runs :
        /\ pc[r] \in {"import", "main", "generate", "failed"} => outfile[r] = None
        /\ outfile[r] # None =>
            /\ Len(bundles[r]) = Len(dataset)
            /\ LET records == Lines(outfile[r])
               IN  /\ records.rest = <<>>
                   /\ Len(records.lines) = written[r]
                   /\ \A k \in 1..written[r] :
                        /\ records.lines[k] = json_dumps(bundles[r][k])
                        /\ bundles[r][k].question = dataset[k].question
        /\ pc[r] = "done" => written[r] = Len(dataset)

C10_Witness ==
    /\ pc[1] = "failed"
    /\ Len(bundles[1]) = 2
    /\ outfile[1] = None
    /\ pc[2] = "save"
    /\ written[2] = 3
    /\ Len(dataset) > 3

====
